---- MODULE Spec2Model ----
(***************************************************************************)
(* Model of the MirrorMind emotion journal (src/emotion_journal.py) and of *)
(* the adaptive tip selection (src/adaptive_health_tips.py).               *)
(*                                                                         *)
(* Time is an integer number of ticks; a calendar day holds TicksPerDay    *)
(* ticks, so datetime.now() is the tick "now" and .date() the day          *)
(* now \div TicksPerDay.  Dates are stored by sqlite3 as zero-padded ISO   *)
(* text, whose text order is the calendar order: the model keeps day       *)
(* numbers.                                                                *)
(***************************************************************************)
EXTENDS Integers, Sequences, FiniteSets, TLC

VARIABLES
    now,            \* the wall clock, in ticks
    emotions,       \* table emotions, in rowid order
    mood_streaks,   \* table mood_streaks, in rowid order
    ret,            \* the last call and what it gave its caller
    faults,         \* operations that hit an exception so far
    is_speaking,    \* VoiceHandler.is_speaking
    mixer_init,     \* pygame.mixer.init succeeded in VoiceHandler.__init__
    music,          \* pygame.mixer.music: the audio loaded and the one playing
    workers,        \* the threads speak_text started, in the order of start
    speakers,       \* the _speak_both threads speak_bilingual started
    auto_voice,     \* st.session_state.auto_voice
    last_spoken_emotion,   \* st.session_state.last_spoken_emotion
    last_emotion_time,     \* st.session_state.last_emotion_time
    time            \* time.time(), in seconds

journal_vars == <<now, emotions, mood_streaks, ret, faults>>
voice_vars   == <<is_speaking, mixer_init, music, workers, speakers>>
session_vars == <<auto_voice, last_spoken_emotion, last_emotion_time, time>>

vars == <<journal_vars, voice_vars, session_vars>>

\* ---------------------------------------------------------------- bounds
MaxSamples       == 3   \* Spec: log_emotion calls of a run
MaxDay           == 3   \* Spec: last calendar day of a run
MaxJump          == 3   \* longest pause, in days, between two operations
TicksPerDay      == 2   \* clock readings told apart within one day
MaxHistory       == 2   \* SpecHistory: log_emotion calls of a run
MaxHistoryDay    == 1   \* SpecHistory, SpecFaults: last calendar day of a run
MaxFaults        == 1   \* SpecFaults: log_emotion calls that hit an exception
MaxFaultySamples == 2   \* SpecFaults: log_emotion calls of a run
MaxTipSamples    == 3   \* SpecTips: log_emotion calls of a run
MaxTipDay        == 2   \* SpecTips: last calendar day of a run
MaxLabelSamples  == 3   \* SpecLabels: log_emotion calls of a run
MaxFrequencySamples == 10  \* SpecFrequency: log_emotion calls of a run
MaxDetections    == 2   \* SpecDetector: frames analysed in a run
MaxSliceSamples  == 4   \* SpecSlice: samples logged in a run
MaxSliceDay      == 8   \* SpecSlice: last day of a run
MaxWorkers       == 2   \* SpecVoice: worker threads started in a run
MaxSpeakers      == 1   \* SpecVoice: calls of speak_bilingual in a run
MaxTicks         == 3   \* SpecCamera: frames analysed in a run
MaxTime          == 8   \* SpecCamera: last second of a run
MaxWeeklySamples == 2   \* SpecWeekly: samples logged in a run
MaxWeeklyDay     == 8   \* SpecWeekly: last day of a run
MaxTrendSamples  == 2   \* SpecTrend: log_emotion calls of a run
MaxTrendDay      == 15  \* SpecTrend: last calendar day of a run

\* ------------------------------------------------------------- constants
StreakTolerance == 2  \* days a streak survives without a sample
Cooldown        == 3  \* seconds between two auto-spoken emotions
RecentDays      == 7
LongerDays      == 14

Emotions   == {"angry", "happy", "neutral", "sad", "surprised", "tired"}
Polarities == {"positive", "negative", "neutral"}
Exceptions == {"sqlite3.Error", "ValueError"}
Faults     == {"none"} \cup Exceptions

Max(a, b) == IF a >= b THEN a ELSE b

NoCall == [op |-> "none"]

\* pygame.mixer.music with nothing loaded; audio is named by the number of
\* the thread that generated it
NoMusic == [loaded |-> 0, playing |-> 0]

Today == now \div TicksPerDay

\* ------------------------------------------------------------- SQL help
\* The orders in which a query with ORDER BY <key> DESC may deliver a set of
\* rows: a row with the greatest key first, then the others in such an order
\* (rows with equal keys come in an order SQLite does not specify).

\* ORDER BY timestamp DESC
RECURSIVE OrderByTimestampDesc(_)
OrderByTimestampDesc(rows) ==
    IF rows = {} THEN {<<>>}
    ELSE UNION {{<<r>> \o s : s \in OrderByTimestampDesc(rows \ {r})} :
                   r \in {x \in rows : \A y \in rows : y.timestamp <= x.timestamp}}

\* ORDER BY created_at DESC
RECURSIVE OrderByCreatedAtDesc(_)
OrderByCreatedAtDesc(rows) ==
    IF rows = {} THEN {<<>>}
    ELSE UNION {{<<r>> \o s : s \in OrderByCreatedAtDesc(rows \ {r})} :
                   r \in {x \in rows : \A y \in rows : y.created_at <= x.created_at}}

Rows(table) == {table[i] : i \in 1..Len(table)}

\* ----------------------------------------------------- update_mood_streaks
\* mutant: tired counts as a negative emotion, as it does in the tip analysis
StreakTypeTiredNegative(emotion) ==
    IF emotion \in {"happy", "surprised"} THEN "positive"
    ELSE IF emotion \in {"sad", "angry", "tired"} THEN "negative"
    ELSE "neutral"

StreakType(emotion) ==
    IF emotion \in {"happy", "surprised"} THEN "positive"
    ELSE IF emotion \in {"sad", "angry"} THEN "negative"
    ELSE "neutral"

\* SELECT * FROM mood_streaks WHERE streak_type = ? ORDER BY created_at DESC
LatestStreaks(table, streak_type) ==
    OrderByCreatedAtDesc({r \in Rows(table) : r.streak_type = streak_type})

\* mutant: a gap of exactly the tolerance already ends the streak
StreakContinuesStrict(date, last_date) == date - last_date < StreakTolerance

StreakContinues(date, last_date) == date - last_date <= StreakTolerance

\* mutant: the best count is not raised with the current count
NewBestKept(best_count, new_count) == best_count

NewBest(best_count, new_count) == Max(best_count, new_count)

\* mutant: a new streak forgets the best count reached before
CarriedBestReset(best_count) == 1

CarriedBest(best_count) == Max(1, best_count)

NewStreak(table, streak_type, date, best, created) ==
    Append(table, [id            |-> Len(table) + 1,
                   streak_type   |-> streak_type,
                   start_date    |-> date,
                   end_date      |-> date,
                   current_count |-> 1,
                   best_count    |-> best,
                   created_at    |-> created])

\* The table after update_mood_streaks(emotion, date) found current_streak
\* (<<row>>, or <<>> when fetchone() returned None).
UpdateMoodStreaks(table, emotion, date, current_streak, created) ==
    IF current_streak # <<>>
    THEN LET row == current_streak[1]
         IN  IF StreakContinues(date, row.end_date)
             THEN LET new_count == row.current_count + 1
                      new_best  == NewBest(row.best_count, new_count)
                  IN  [table EXCEPT ![row.id] =
                          [@ EXCEPT !.end_date      = date,
                                    !.current_count = new_count,
                                    !.best_count    = new_best]]
             ELSE NewStreak(table, StreakType(emotion), date,
                            CarriedBest(row.best_count), created)
    ELSE NewStreak(table, StreakType(emotion), date, 1, created)

\* What fetchone() may return for the streak lookup.
CurrentStreakChoices(table, streak_type) ==
    {IF s = <<>> THEN <<>> ELSE <<s[1]>> : s \in LatestStreaks(table, streak_type)}

\* ------------------------------------------------------------ log_emotion
\* "except Exception" of log_emotion and of update_mood_streaks.
\* mutant: the handlers catch the database errors only
ExceptSqliteError(exc) == exc = "sqlite3.Error"

ExceptException(exc) == exc \in Exceptions

\* an exception leaves update_mood_streaks only if its handler lets it pass
UpdateRaises(fault) == fault # "none" /\ ~ExceptException(fault)

\* an exception leaves log_emotion only if its handler lets it pass
LogRaises(insert_fault, update_fault) ==
    \/ insert_fault # "none" /\ ~ExceptException(insert_fault)
    \/ /\ insert_fault = "none"
       /\ UpdateRaises(update_fault)
       /\ ~ExceptException(update_fault)

\* mutant: the new sample takes the place of the samples before it
NewSampleReplaces(table, emotion, confidence, timestamp, date) ==
    <<[id         |-> 1,
       timestamp  |-> timestamp,
       date       |-> date,
       emotion    |-> emotion,
       confidence |-> confidence]>>

\* INSERT INTO emotions
NewSample(table, emotion, confidence, timestamp, date) ==
    Append(table, [id         |-> Len(table) + 1,
                   timestamp  |-> timestamp,
                   date       |-> date,
                   emotion    |-> emotion,
                   confidence |-> confidence])

Faulty(fault) == IF fault = "none" THEN 0 ELSE 1

\* what log_emotion(emotion, confidence) does to the store; the confidence is
\* kept in hundredths
LogEmotionStore(emotion, confidence, insert_fault, update_fault) ==
    /\ faults' = faults + Faulty(insert_fault) + Faulty(update_fault)
    /\ LET current_time == now
           current_date == Today
       IN  /\ emotions' = IF insert_fault = "none"
                          THEN NewSample(emotions, emotion, confidence,
                                         current_time, current_date)
                          ELSE emotions
           /\ IF insert_fault = "none" /\ update_fault = "none"
              THEN \E current_streak \in
                        CurrentStreakChoices(mood_streaks, StreakType(emotion)) :
                      mood_streaks' = UpdateMoodStreaks(mood_streaks, emotion,
                                          current_date, current_streak, now)
              ELSE mood_streaks' = mood_streaks

\* confidence: float = 0.0
DefaultConfidence == 0

\* log_emotion(emotion)
LogEmotion(emotion, insert_fault, update_fault) ==
    /\ ret = NoCall
    /\ LogEmotionStore(emotion, DefaultConfidence, insert_fault, update_fault)
    /\ ret' = [op       |-> "log_emotion",
               emotion  |-> emotion,
               date     |-> Today,
               inserted |-> insert_fault = "none",
               updated  |-> insert_fault = "none" /\ update_fault = "none",
               raised   |-> LogRaises(insert_fault, update_fault)]
    /\ UNCHANGED <<now, voice_vars, session_vars>>

\* ---------------------------------------------------- get_emotion_history
\* SELECT timestamp, date, emotion ... WHERE date >= ? AND date <= ?
\*   ORDER BY timestamp DESC
\* mutant: the first day of the window is left out
InWindowAfterStart(date, start_date, end_date) ==
    date > start_date /\ date <= end_date

\* mutant: the window has no first day
InWindowNoStart(date, start_date, end_date) == date <= end_date

InWindow(date, start_date, end_date) == date >= start_date /\ date <= end_date

Selected(s) ==
    [i \in 1..Len(s) |-> [timestamp  |-> s[i].timestamp,
                          date       |-> s[i].date,
                          emotion    |-> s[i].emotion,
                          confidence |-> s[i].confidence]]

\* the DataFrames get_emotion_history(days) may return on the day "today"
EmotionHistory(table, today, days, fault) ==
    IF fault # "none"
    THEN {<<>>}
    ELSE LET end_date   == today
             start_date == end_date - days
         IN  {Selected(s) : s \in
                 OrderByTimestampDesc({r \in Rows(table) :
                     InWindow(r.date, start_date, end_date)})}

GetEmotionHistory(days, fault) ==
    /\ ret = NoCall
    /\ \E df \in EmotionHistory(emotions, Today, days, fault) :
          ret' = [op     |-> "get_emotion_history",
                  days   |-> days,
                  today  |-> Today,
                  df     |-> df,
                  raised |-> fault # "none" /\ ~ExceptException(fault)]
    /\ UNCHANGED <<now, emotions, mood_streaks, faults, voice_vars, session_vars>>

\* ---------------------------------------------------- get_current_streaks
\* the index of the row that the loop leaves in streak_data[streak_type]:
\* every row of the type assigns the entry, so the last one fetched stays
KeptRow(streaks, streak_type) ==
    CHOOSE i \in 1..Len(streaks) :
        /\ streaks[i].streak_type = streak_type
        /\ \A j \in 1..Len(streaks) : streaks[j].streak_type = streak_type => j <= i

StreakData(streaks) ==
    [t \in {streaks[i].streak_type : i \in 1..Len(streaks)} |->
        LET r == streaks[KeptRow(streaks, t)]
        IN  [current    |-> r.current_count,
             best       |-> r.best_count,
             start_date |-> r.start_date,
             end_date   |-> r.end_date]]

\* SELECT ... FROM mood_streaks WHERE current_count > 0 ORDER BY created_at DESC
CurrentStreaks(table, fault) ==
    IF fault # "none"
    THEN {<<>>}
    ELSE {StreakData(s) : s \in
             OrderByCreatedAtDesc({r \in Rows(table) : r.current_count > 0})}

GetCurrentStreaks(fault) ==
    /\ ret = NoCall
    /\ \E streak_data \in CurrentStreaks(mood_streaks, fault) :
          ret' = [op          |-> "get_current_streaks",
                  streak_data |-> streak_data,
                  raised      |-> fault # "none" /\ ~ExceptException(fault)]
    /\ UNCHANGED <<now, emotions, mood_streaks, faults, voice_vars, session_vars>>

\* ===================================================== adaptive_health_tips
PoolSize == 5   \* texts in each pool of emotion_tips

\* emotion_tips: the tiers of each emotion
Tiers(emotion) ==
    CASE emotion = "happy"     -> {"maintain", "build_on"}
      [] emotion = "sad"       -> {"immediate", "persistent", "severe"}
      [] emotion = "angry"     -> {"immediate", "frequent", "chronic"}
      [] emotion = "tired"     -> {"immediate", "frequent", "chronic"}
      [] emotion = "neutral"   -> {"stable", "encourage"}
      [] emotion = "surprised" -> {"process"}
      [] OTHER                 -> {}

\* emotion_tips[emotion][tier]: no text occurs in two pools, so a text is
\* named by its pool and its place in it
TipPool(emotion, tier) ==
    {[emotion |-> emotion, tier |-> tier, n |-> n] : n \in 1..PoolSize}

\* ["Take care of yourself today. (green heart)"]
GenericTips == {[emotion |-> "any", tier |-> "generic", n |-> 1]}

\* ['Take care of yourself today.']
BasicTips == {[emotion |-> "any", tier |-> "basic", n |-> 1]}

\* mutant: neutral days raise the concern too
ConcerningEmotionsAndNeutral == {"sad", "angry", "tired", "neutral"}

ConcerningEmotions == {"sad", "angry", "tired"}
PositiveEmotions   == {"happy", "surprised"}
NegativeEmotions   == {"sad", "angry", "tired"}

\* mutant: an emotion is counted once for each day it occurs on
ValueCountDays(df, emotion) ==
    Cardinality({df[i].date : i \in {j \in 1..Len(df) : df[j].emotion = emotion}})

\* df['emotion'].value_counts()
ValueCount(df, emotion) == Cardinality({i \in 1..Len(df) : df[i].emotion = emotion})

\* value_counts().index[0]: an emotion counted most often (the order among
\* equal counts is left to the sort)
Dominants(df) ==
    {e \in {df[i].emotion : i \in 1..Len(df)} :
        \A x \in Emotions : ValueCount(df, x) <= ValueCount(df, e)}

\* df.groupby('date')['emotion'].apply(list).sort_index(ascending=False):
\* the dates that have rows, newest first, each with its emotions
DailyEmotions(df) ==
    LET dates == {df[i].date : i \in 1..Len(df)}
        n     == Cardinality(dates)
        nth   == [k \in 1..n |->
                    CHOOSE d \in dates : Cardinality({x \in dates : x > d}) = k - 1]
    IN  [k \in 1..n |-> {df[i].emotion : i \in {j \in 1..Len(df) : df[j].date = nth[k]}}]

\* the loop of _count_consecutive_days from the k-th group on
RECURSIVE CountFrom(_, _, _)
CountFrom(daily_emotions, emotion_set, k) ==
    IF k > Len(daily_emotions) THEN 0
    ELSE IF daily_emotions[k] \cap emotion_set # {}
         THEN 1 + CountFrom(daily_emotions, emotion_set, k + 1)
         ELSE 0

CountConsecutiveDays(df, emotion_set) ==
    IF df = <<>> THEN 0 ELSE CountFrom(DailyEmotions(df), emotion_set, 1)

\* mutant: three days are not yet a high concern
ConcernLevelLate(consecutive_days) ==
    IF consecutive_days > 3 THEN "high"
    ELSE IF consecutive_days >= 2 THEN "moderate"
    ELSE "none"

ConcernLevel(consecutive_days) ==
    IF consecutive_days >= 3 THEN "high"
    ELSE IF consecutive_days >= 2 THEN "moderate"
    ELSE "none"

\* mutant: three happy days are not yet a positive streak
PositiveStreakLate(happy_days) == happy_days > 3

\* happy_days >= 3
PositiveStreak(happy_days) == happy_days >= 3

\* mutant: a ratio on a threshold already falls in the higher bucket
FrequencyInclusive(count, total) ==
    IF count * 10 >= 6 * total THEN "high"
    ELSE IF count * 10 >= 3 * total THEN "moderate"
    ELSE "low"

\* frequency_ratio = count / total against 0.6 and 0.3, in tenths
Frequency(count, total) ==
    IF count * 10 > 6 * total THEN "high"
    ELSE IF count * 10 > 3 * total THEN "moderate"
    ELSE "low"

PositiveCount(df) == ValueCount(df, "happy") + ValueCount(df, "surprised")
NegativeCount(df) ==
    ValueCount(df, "sad") + ValueCount(df, "angry") + ValueCount(df, "tired")

\* mutant: the slice drops the last len(recent_df) rows, not the first
OlderPeriodHead(recent_df, longer_df) ==
    SubSeq(longer_df, 1, Len(longer_df) - Len(recent_df))

\* older_period = longer_df[len(recent_df):]
OlderPeriod(recent_df, longer_df) ==
    SubSeq(longer_df, Len(recent_df) + 1, Len(longer_df))

\* mutant: one of the two shifts is enough for a trend
TrendAnyShift(recent_df, longer_df) ==
    IF longer_df # <<>> /\ Len(longer_df) > Len(recent_df)
    THEN LET older_period == OlderPeriod(recent_df, longer_df)
         IN  IF \/ PositiveCount(recent_df) > PositiveCount(older_period)
                \/ NegativeCount(recent_df) < NegativeCount(older_period)
             THEN "improving"
             ELSE IF \/ PositiveCount(recent_df) < PositiveCount(older_period)
                     \/ NegativeCount(recent_df) > NegativeCount(older_period)
                  THEN "declining"
                  ELSE "stable"
    ELSE "stable"

\* the trend analysis: the recent counts against those of the rows of
\* longer_df after the first len(recent_df)
Trend(recent_df, longer_df) ==
    IF longer_df # <<>> /\ Len(longer_df) > Len(recent_df)
    THEN LET older_period == OlderPeriod(recent_df, longer_df)
         IN  IF /\ PositiveCount(recent_df) > PositiveCount(older_period)
                /\ NegativeCount(recent_df) < NegativeCount(older_period)
             THEN "improving"
             ELSE IF /\ PositiveCount(recent_df) < PositiveCount(older_period)
                     /\ NegativeCount(recent_df) > NegativeCount(older_period)
                  THEN "declining"
                  ELSE "stable"
    ELSE "stable"

\* mutant: the snapshot of an empty window names the current emotion as the
\* dominant one
DefaultPatternsEcho(current_emotion) ==
    [current_emotion  |-> current_emotion,
     pattern_type     |-> "stable",
     frequency        |-> "normal",
     trend            |-> "stable",
     concern_level    |-> "none",
     consecutive_days |-> 0,
     dominant_emotion |-> current_emotion]

\* the patterns dict as _analyze_emotion_patterns initialises it
DefaultPatterns(current_emotion) ==
    [current_emotion  |-> current_emotion,
     pattern_type     |-> "stable",
     frequency        |-> "normal",
     trend            |-> "stable",
     concern_level    |-> "none",
     consecutive_days |-> 0,
     dominant_emotion |-> "neutral"]

\* _analyze_emotion_patterns, with the emotion value_counts() puts first
AnalyzeEmotionPatterns(recent_df, longer_df, current_emotion, dominant) ==
    IF recent_df = <<>>
    THEN DefaultPatterns(current_emotion)
    ELSE LET concerning       == current_emotion \in ConcerningEmotions
             consecutive_days == IF concerning
                                 THEN CountConsecutiveDays(recent_df, ConcerningEmotions)
                                 ELSE 0
             happy_days       == IF current_emotion = "happy"
                                 THEN CountConsecutiveDays(recent_df, {"happy"})
                                 ELSE 0
         IN  [current_emotion  |-> current_emotion,
              pattern_type     |->
                  IF current_emotion = "happy" /\ PositiveStreak(happy_days)
                  THEN "positive_streak"
                  ELSE IF ConcernLevel(consecutive_days) = "high"
                       THEN "persistent_negative"
                       ELSE IF ConcernLevel(consecutive_days) = "moderate"
                            THEN "frequent_negative"
                            ELSE "stable",
              frequency        |->
                  Frequency(ValueCount(recent_df, current_emotion), Len(recent_df)),
              trend            |-> Trend(recent_df, longer_df),
              concern_level    |-> ConcernLevel(consecutive_days),
              consecutive_days |-> consecutive_days,
              dominant_emotion |-> dominant]

\* mutant: a moderate concern is served like no concern
SelectedTierNoModerate(emotion, patterns) ==
    IF patterns.concern_level = "high" /\ emotion \in {"sad", "angry", "tired"}
    THEN IF emotion = "sad" THEN <<emotion, "severe">> ELSE <<emotion, "chronic">>
    ELSE IF patterns.pattern_type = "positive_streak"
    THEN <<"happy", "build_on">>
    ELSE IF "immediate" \in Tiers(emotion) THEN <<emotion, "immediate">>
    ELSE IF "stable" \in Tiers(emotion) THEN <<emotion, "stable">>
    ELSE <<"any", "generic">>

\* _select_tip_based_on_pattern: the pool random.choice draws from
SelectedTier(emotion, patterns) ==
    IF patterns.concern_level = "high" /\ emotion \in {"sad", "angry", "tired"}
    THEN IF emotion = "sad" THEN <<emotion, "severe">> ELSE <<emotion, "chronic">>
    ELSE IF patterns.concern_level = "moderate" /\ emotion \in {"sad", "angry", "tired"}
    THEN IF emotion = "sad" THEN <<emotion, "persistent">> ELSE <<emotion, "frequent">>
    ELSE IF patterns.pattern_type = "positive_streak"
    THEN <<"happy", "build_on">>
    ELSE IF "immediate" \in Tiers(emotion) THEN <<emotion, "immediate">>
    ELSE IF "stable" \in Tiers(emotion) THEN <<emotion, "stable">>
    ELSE <<"any", "generic">>

Pool(tier) ==
    IF tier = <<"any", "generic">> THEN GenericTips ELSE TipPool(tier[1], tier[2])

\* _get_tip_category
TipCategory(patterns) ==
    IF patterns.concern_level = "high" THEN "urgent"
    ELSE IF patterns.concern_level = "moderate" THEN "attention"
    ELSE IF patterns.pattern_type = "positive_streak" THEN "celebrate"
    ELSE "normal"

\* the except branch of get_adaptive_tip
BasicPool(current_emotion) ==
    IF "immediate" \in Tiers(current_emotion)
    THEN TipPool(current_emotion, "immediate")
    ELSE BasicTips

\* mutant: the handler of get_adaptive_tip catches the database errors only
AdaptiveTipExceptSqliteError(exc) == exc = "sqlite3.Error"

\* "except Exception" of get_adaptive_tip
AdaptiveTipExcept(exc) == exc \in Exceptions

\* get_adaptive_tip(current_emotion); recent_fault and longer_fault are what
\* the two reads of the journal hit, analysis_fault what the rest of the try
\* body hits
GetAdaptiveTip(current_emotion, recent_fault, longer_fault, analysis_fault) ==
    /\ ret = NoCall
    /\ \E recent_history \in EmotionHistory(emotions, Today, RecentDays, recent_fault),
          longer_history \in EmotionHistory(emotions, Today, LongerDays, longer_fault) :
          LET \* the exception that ends the try body, if any: one that
              \* get_emotion_history let pass, or one of the analysis
              exc == IF recent_fault # "none" /\ ~ExceptException(recent_fault)
                     THEN recent_fault
                     ELSE IF longer_fault # "none" /\ ~ExceptException(longer_fault)
                          THEN longer_fault
                          ELSE analysis_fault
          IN  IF exc = "none"
              THEN \E dominant \in (IF recent_history = <<>>
                                    THEN {"neutral"} ELSE Dominants(recent_history)) :
                     LET patterns == AnalyzeEmotionPatterns(recent_history,
                                         longer_history, current_emotion, dominant)
                         tier     == SelectedTier(current_emotion, patterns)
                     IN  \E tip_text \in Pool(tier) :
                            ret' = [op       |-> "get_adaptive_tip",
                                    emotion  |-> current_emotion,
                                    path     |-> "try",
                                    patterns |-> patterns,
                                    text     |-> tip_text,
                                    category |-> TipCategory(patterns),
                                    recent_failed |-> recent_fault # "none",
                                    longer_failed |-> longer_fault # "none",
                                    raised   |-> FALSE]
              ELSE \E tip_text \in BasicPool(current_emotion) :
                      ret' = [op       |-> "get_adaptive_tip",
                              emotion  |-> current_emotion,
                              path     |-> "except",
                              patterns |-> DefaultPatterns(current_emotion),
                              text     |-> tip_text,
                              category |-> "basic",
                              recent_failed |-> recent_fault # "none",
                              longer_failed |-> longer_fault # "none",
                              raised   |-> ~AdaptiveTipExcept(exc)]
    /\ UNCHANGED <<now, emotions, mood_streaks, faults, voice_vars, session_vars>>

\* ------------------------------------------------------ get_mood_insights
\* emotion_counts.to_dict()
EmotionDistribution(df) ==
    [e \in {df[i].emotion : i \in 1..Len(df)} |-> ValueCount(df, e)]

\* get_mood_insights(days): history_fault is what the read of the journal
\* hits, analysis_fault what the rest of the try body hits; the confidence
\* average, the daily averages and the insight sentences are left out
GetMoodInsights(days, history_fault, analysis_fault) ==
    /\ ret = NoCall
    /\ \E df \in EmotionHistory(emotions, Today, days, history_fault) :
          LET exc == IF history_fault # "none" /\ ~ExceptException(history_fault)
                     THEN history_fault
                     ELSE analysis_fault
          IN  IF exc # "none"
              THEN ret' = [op            |-> "get_mood_insights",
                           days          |-> days,
                           path          |-> "except",
                           total_entries |-> 0,
                           raised        |-> ~ExceptException(exc)]
              ELSE IF df = <<>>
              THEN ret' = [op                   |-> "get_mood_insights",
                           days                 |-> days,
                           path                 |-> "try",
                           total_entries        |-> 0,
                           dominant_emotion     |-> "neutral",
                           emotion_distribution |-> <<>>,
                           raised               |-> FALSE]
              ELSE \E dominant \in Dominants(df) :
                      ret' = [op                   |-> "get_mood_insights",
                              days                 |-> days,
                              path                 |-> "try",
                              total_entries        |-> Len(df),
                              dominant_emotion     |-> dominant,
                              emotion_distribution |-> EmotionDistribution(df),
                              raised               |-> FALSE]
    /\ UNCHANGED <<now, emotions, mood_streaks, faults, voice_vars, session_vars>>

\* ============================================================ voice_handler
\* A thread of _generate_and_play_audio is a record: pc is the statement it is
\* at, language its argument, and stopped tells that stop_speaking has
\* returned since speak_text started the thread.
WorkerPcs == {"generate", "load", "play", "wait", "sleep", "finally", "done"}

Stopped(threads) ==
    [i \in 1..Len(threads) |-> [threads[i] EXCEPT !.stopped = TRUE]]

\* if pygame.mixer.get_init(): pygame.mixer.music.stop()
StoppedMusic == IF mixer_init THEN [music EXCEPT !.playing = 0] ELSE music

\* stop_speaking()
StopSpeaking ==
    /\ is_speaking' = FALSE
    /\ music' = StoppedMusic
    /\ workers' = Stopped(workers)
    /\ UNCHANGED <<mixer_init, speakers, journal_vars, session_vars>>

\* what speak_text(text, language) does to the handler: stop_speaking(), set
\* the flag, start the thread
SpeakTextVoice(language) ==
    /\ is_speaking' = TRUE
    /\ music' = StoppedMusic
    /\ workers' = Append(Stopped(workers), [pc       |-> "generate",
                                            language |-> language,
                                            stopped  |-> FALSE])

\* speak_text(text, language)
SpeakText(language) ==
    /\ SpeakTextVoice(language)
    /\ UNCHANGED <<mixer_init, speakers, journal_vars, session_vars>>

\* thread i moves to the statement pc
Goto(i, pc) == [workers EXCEPT ![i].pc = pc]

\* gTTS(...) and tts.save(...): an error of the speech service ends the try
\* body; then "if pygame.mixer.get_init()"
Generate(i, ok) ==
    /\ workers[i].pc = "generate"
    /\ workers' = Goto(i, IF ~ok THEN "finally"
                          ELSE IF mixer_init THEN "load" ELSE "sleep")
    /\ UNCHANGED <<is_speaking, mixer_init, music, speakers,
                   journal_vars, session_vars>>

\* pygame.mixer.music.load(tmp_file.name): the music playing is stopped
Load(i) ==
    /\ workers[i].pc = "load"
    /\ music' = [loaded |-> i, playing |-> 0]
    /\ workers' = Goto(i, "play")
    /\ UNCHANGED <<is_speaking, mixer_init, speakers, journal_vars, session_vars>>

\* pygame.mixer.music.play(): the audio loaded last starts
Play(i) ==
    /\ workers[i].pc = "play"
    /\ music' = [music EXCEPT !.playing = music.loaded]
    /\ workers' = Goto(i, "wait")
    /\ UNCHANGED <<is_speaking, mixer_init, speakers, journal_vars, session_vars>>

\* while pygame.mixer.music.get_busy() and self.is_speaking: the loop is left
Wait(i) ==
    /\ workers[i].pc = "wait"
    /\ ~(music.playing # 0 /\ is_speaking)
    /\ workers' = Goto(i, "finally")
    /\ UNCHANGED <<is_speaking, mixer_init, music, speakers,
                   journal_vars, session_vars>>

\* time.sleep(len(text) * 0.1) without a mixer
Sleep(i) ==
    /\ workers[i].pc = "sleep"
    /\ workers' = Goto(i, "finally")
    /\ UNCHANGED <<is_speaking, mixer_init, music, speakers,
                   journal_vars, session_vars>>

\* finally: self.is_speaking = False
Finally(i) ==
    /\ workers[i].pc = "finally"
    /\ is_speaking' = FALSE
    /\ workers' = Goto(i, "done")
    /\ UNCHANGED <<mixer_init, music, speakers, journal_vars, session_vars>>

\* the audio playing comes to its end
AudioEnds ==
    /\ music.playing # 0
    /\ music' = [music EXCEPT !.playing = 0]
    /\ UNCHANGED <<is_speaking, mixer_init, workers, speakers,
                   journal_vars, session_vars>>

\* is_currently_speaking(): without a mixer get_busy() raises pygame.error
\* and the flag alone is returned
IsCurrentlySpeaking ==
    IF mixer_init THEN is_speaking /\ music.playing # 0 ELSE is_speaking

\* speak_bilingual(english_text, hindi_text): the thread _speak_both starts
SpeakBilingual ==
    /\ speakers' = Append(speakers, [pc |-> "english", english |-> 0])
    /\ UNCHANGED <<is_speaking, mixer_init, music, workers,
                   journal_vars, session_vars>>

\* _speak_both: self.speak_text(english_text, 'en')
SpeakEnglish(j) ==
    /\ speakers[j].pc = "english"
    /\ SpeakTextVoice("en")
    /\ speakers' = [speakers EXCEPT ![j] = [pc      |-> "waiting",
                                            english |-> Len(workers) + 1]]
    /\ UNCHANGED <<mixer_init, journal_vars, session_vars>>

\* _speak_both: while self.is_currently_speaking() is left, then
\* time.sleep(delay_between)
WaitForEnglish(j) ==
    /\ speakers[j].pc = "waiting"
    /\ ~IsCurrentlySpeaking
    /\ speakers' = [speakers EXCEPT ![j].pc = "hindi"]
    /\ UNCHANGED <<is_speaking, mixer_init, music, workers,
                   journal_vars, session_vars>>

\* _speak_both: self.speak_text(hindi_text, 'hi')
SpeakHindi(j) ==
    /\ speakers[j].pc = "hindi"
    /\ SpeakTextVoice("hi")
    /\ speakers' = [speakers EXCEPT ![j].pc = "done"]
    /\ UNCHANGED <<mixer_init, journal_vars, session_vars>>

\* -------------------------------------------------- get_weekly_comparison
\* today.weekday(), 0 for a Monday: day 0 is taken to be a Monday
Weekday(day) == day % 7

\* the rows the query of last week counts
LastWeekRows(table, today) ==
    LET this_week_start == today - Weekday(today)
        last_week_start == this_week_start - 7
        last_week_end   == this_week_start - 1
    IN  {r \in Rows(table) : InWindow(r.date, last_week_start, last_week_end)}

\* the stored rows a DataFrame of get_emotion_history holds
RowsIn(table, df) ==
    {r \in Rows(table) :
        \E i \in 1..Len(df) : /\ df[i].timestamp = r.timestamp
                              /\ df[i].date = r.date
                              /\ df[i].emotion = r.emotion
                              /\ df[i].confidence = r.confidence}

\* the number of the emotions of which this week has more than last week
Risen(changes, emotion_set) ==
    Cardinality({e \in emotion_set \cap DOMAIN changes : changes[e].change > 0})

\* get_weekly_comparison(); this_week and last_week name the stored rows
\* the two totals count
GetWeeklyComparison ==
    /\ ret = NoCall
    /\ \E this_week_emotions \in EmotionHistory(emotions, Today, 7, "none") :
          LET last_week      == LastWeekRows(emotions, Today)
              last_week_df   == [e \in {r.emotion : r \in last_week} |->
                                    Cardinality({r \in last_week : r.emotion = e})]
              all_emotions   == {this_week_emotions[i].emotion :
                                    i \in 1..Len(this_week_emotions)}
                                    \cup DOMAIN last_week_df
              this_count(e)  == ValueCount(this_week_emotions, e)
              last_count(e)  == IF e \in DOMAIN last_week_df THEN last_week_df[e] ELSE 0
              changes        == [e \in all_emotions |->
                                    [this_week |-> this_count(e),
                                     last_week |-> last_count(e),
                                     change    |-> this_count(e) - last_count(e)]]
              positive_change == Risen(changes, {"happy", "surprised"})
              negative_change == Risen(changes, {"sad", "angry", "tired"})
          IN  ret' = [op              |-> "get_weekly_comparison",
                      this_week_total |-> Len(this_week_emotions),
                      last_week_total |-> Cardinality(last_week),
                      emotion_changes |-> changes,
                      overall_trend   |->
                          IF positive_change > negative_change THEN "improving"
                          ELSE IF negative_change > positive_change THEN "declining"
                          ELSE "stable",
                      this_week       |->
                          {r.id : r \in RowsIn(emotions, this_week_emotions)},
                      last_week       |-> {r.id : r \in last_week}]
    /\ UNCHANGED <<now, emotions, mood_streaks, faults, voice_vars, session_vars>>

\* ====================================================== run_camera_analysis
\* softmax outputs of the winning class, in hundredths
ConfidenceLevels == {50, 100}

\* mutant: a frame without a face is reported under a label of its own
DetectorOutputsNoFace ==
    {<<"no_face", 0>>} \cup (Emotions \X ConfidenceLevels)

\* detect_emotion(frame): ("neutral", 0.0) without a face or on an error,
\* else the label of the winning class and its probability
DetectorOutputs ==
    {<<"neutral", 0>>} \cup (Emotions \X ConfidenceLevels)

\* mutant: the cooldown is over after exactly 3 seconds
AutoSpeakAtCooldown(emotion, current_time) ==
    /\ auto_voice
    /\ emotion # last_spoken_emotion
    /\ current_time - last_emotion_time >= Cooldown

\* the condition of the auto-speak
AutoSpeak(emotion, current_time) ==
    /\ auto_voice
    /\ emotion # last_spoken_emotion
    /\ current_time - last_emotion_time > Cooldown

\* run_camera_analysis on a frame the detector answers with detected: the
\* sample is logged to the journal, and spoken if AutoSpeak holds
\* (mood_tracker.record_mood writes a file of its own, left out here)
RunCameraAnalysis(detected, insert_fault, update_fault) ==
    /\ ret = NoCall
    /\ LET emotion      == detected[1]
           confidence   == detected[2]
           current_time == time
       IN  /\ LogEmotionStore(emotion, confidence, insert_fault, update_fault)
           /\ IF AutoSpeak(emotion, current_time)
              THEN /\ SpeakTextVoice("en")
                   /\ last_spoken_emotion' = emotion
                   /\ last_emotion_time' = current_time
              ELSE UNCHANGED <<is_speaking, music, workers,
                               last_spoken_emotion, last_emotion_time>>
           /\ ret' = [op         |-> "run_camera_analysis",
                      emotion    |-> emotion,
                      confidence |-> confidence,
                      time       |-> current_time,
                      spoke      |-> AutoSpeak(emotion, current_time)]
    /\ UNCHANGED <<now, mixer_init, speakers, auto_voice, time>>

\* the checkbox "Auto-speak emotions"
ToggleAutoVoice ==
    /\ ret = NoCall
    /\ auto_voice' = ~auto_voice
    /\ UNCHANGED <<journal_vars, voice_vars,
                   last_spoken_emotion, last_emotion_time, time>>

\* a second passes
Second ==
    /\ ret = NoCall
    /\ time' = time + 1
    /\ UNCHANGED <<journal_vars, voice_vars,
                   auto_voice, last_spoken_emotion, last_emotion_time>>

\* ------------------------------------------------------------------ clock

\* the clock moves on within the day
Tick ==
    /\ ret = NoCall
    /\ (now + 1) \div TicksPerDay = Today
    /\ now' = now + 1
    /\ UNCHANGED <<emotions, mood_streaks, ret, faults, voice_vars, session_vars>>

\* k days pass; the next reading of the clock is on the morning of that day
NextDay(k) ==
    /\ ret = NoCall
    /\ now' = (Today + k) * TicksPerDay
    /\ UNCHANGED <<emotions, mood_streaks, ret, faults, voice_vars, session_vars>>

\* the caller takes the result of the call and goes on
Return ==
    /\ ret # NoCall
    /\ ret' = NoCall
    /\ UNCHANGED <<now, emotions, mood_streaks, faults, voice_vars, session_vars>>

\* --------------------------------------------------------- specifications
\* EmotionJournal.__init__ on a new database file
InitJournal ==
    /\ now = 0
    /\ emotions = <<>>
    /\ mood_streaks = <<>>
    /\ ret = NoCall
    /\ faults = 0

\* VoiceHandler.__init__: pygame.mixer.init may fail
InitVoiceHandler ==
    /\ is_speaking = FALSE
    /\ mixer_init \in BOOLEAN
    /\ music = NoMusic
    /\ workers = <<>>
    /\ speakers = <<>>

\* the session state mirror_interface sets up; last_spoken_emotion is read
\* with the default ''; time.time() is far beyond the cooldown
StartTime == Cooldown + 1

InitSession ==
    /\ auto_voice = TRUE
    /\ last_spoken_emotion = ""
    /\ last_emotion_time = 0
    /\ time = StartTime

Init ==
    /\ InitJournal
    /\ InitVoiceHandler /\ mixer_init = TRUE
    /\ InitSession

\* Spec: samples are logged over the days and the streaks are read.
Next ==
    \/ \E e \in Emotions :
          Len(emotions) < MaxSamples /\ LogEmotion(e, "none", "none")
    \/ GetCurrentStreaks("none")
    \/ \E k \in 1..MaxJump : Today + k <= MaxDay /\ NextDay(k)
    \/ Return

Spec == Init /\ [][Next]_vars

\* SpecHistory: samples are logged at the readings of the clock and the
\* history is read over windows of HistoryDays days.
HistoryDays == {0, 1, 7}

NextHistory ==
    \/ \E e \in Emotions :
          Len(emotions) < MaxHistory /\ LogEmotion(e, "none", "none")
    \/ \E days \in HistoryDays : GetEmotionHistory(days, "none")
    \/ Tick
    \/ \E k \in 1..MaxJump : Today + k <= MaxHistoryDay /\ NextDay(k)
    \/ Return

SpecHistory == Init /\ [][NextHistory]_vars

\* log_emotion takes any string: the labels of the detector and one it does
\* not know
Labels == Emotions \cup {"fearful"}

\* SpecLabels: samples of any label are logged over the days.
NextLabels ==
    \/ \E e \in Labels :
          Len(emotions) < MaxLabelSamples /\ LogEmotion(e, "none", "none")
    \/ \E k \in 1..MaxJump : Today + k <= MaxDay /\ NextDay(k)
    \/ Return

SpecLabels == Init /\ [][NextLabels]_vars

\* The labels logged in SpecFaults and SpecTips, one of each kind the streaks
\* and the analysis tell apart: happy (positive), sad (negative, concerning),
\* tired (neutral polarity, concerning) and neutral.  The emotion a tip is
\* asked for ranges over all of Emotions.
LoggedLabels == {"happy", "sad", "tired", "neutral"}

\* a sample carries the current reading of the clock
LoggedNow == \E r \in Rows(emotions) : r.timestamp = now

\* get_weekly_motivation asks for the insights of 7 days
InsightsDays == {RecentDays}

\* SpecFaults: any statement of a call may hit an exception; the samples are
\* logged at distinct readings of the clock.
NextFaults ==
    \/ \E e \in LoggedLabels, insert_fault \in Faults, update_fault \in Faults :
          /\ Len(emotions) + faults < MaxFaultySamples
          /\ ~LoggedNow
          /\ insert_fault # "none" => update_fault = "none"
          /\ faults + Faulty(insert_fault) + Faulty(update_fault) <= MaxFaults
          /\ LogEmotion(e, insert_fault, update_fault)
    \/ \E days \in HistoryDays, fault \in Faults : GetEmotionHistory(days, fault)
    \/ \E fault \in Faults : GetCurrentStreaks(fault)
    \/ \E days \in InsightsDays, history_fault \in Faults, analysis_fault \in Faults :
          /\ Faulty(history_fault) + Faulty(analysis_fault) <= 1
          /\ GetMoodInsights(days, history_fault, analysis_fault)
    \/ \E e \in LoggedLabels, recent_fault \in Faults, longer_fault \in Faults,
          analysis_fault \in Faults :
          /\ \/ Faulty(recent_fault) + Faulty(longer_fault) + Faulty(analysis_fault) <= 1
             \/ recent_fault = longer_fault /\ analysis_fault = "none"
          /\ GetAdaptiveTip(e, recent_fault, longer_fault, analysis_fault)
    \/ LoggedNow /\ Tick
    \/ \E k \in 1..MaxJump : Today + k <= MaxHistoryDay /\ NextDay(k)
    \/ Return

SpecFaults == Init /\ [][NextFaults]_vars

\* SpecTips: samples are logged at distinct readings of the clock and the
\* adaptive tip is asked for.
NextTips ==
    \/ \E e \in LoggedLabels :
          /\ Len(emotions) < MaxTipSamples
          /\ ~LoggedNow
          /\ LogEmotion(e, "none", "none")
    \/ \E e \in Emotions : GetAdaptiveTip(e, "none", "none", "none")
    \/ LoggedNow /\ Tick
    \/ \E k \in 1..MaxJump : Today + k <= MaxTipDay /\ NextDay(k)
    \/ Return

SpecTips == Init /\ [][NextTips]_vars

\* SpecTrend: samples are logged on days a week or more apart, so that the
\* 7-day and the 14-day window hold different samples, and the adaptive tip
\* is asked for.
TrendJumps == {RecentDays, RecentDays + 1}

NextTrend ==
    \/ \E e \in LoggedLabels :
          Len(emotions) < MaxTrendSamples /\ LogEmotion(e, "none", "none")
    \/ \E e \in Emotions : GetAdaptiveTip(e, "none", "none", "none")
    \/ \E k \in TrendJumps : Today + k <= MaxTrendDay /\ NextDay(k)
    \/ Return

SpecTrend == Init /\ [][NextTrend]_vars

\* SpecFrequency: samples of two labels are logged back to back, one at each
\* reading of the clock, and the adaptive tip is asked for one of the two.
FrequencyLabels == {"happy", "neutral"}

NextFrequency ==
    \/ \E e \in FrequencyLabels :
          /\ Len(emotions) < MaxFrequencySamples
          /\ ~LoggedNow
          /\ LogEmotion(e, "none", "none")
    \/ \E e \in FrequencyLabels : GetAdaptiveTip(e, "none", "none", "none")
    \/ LoggedNow /\ Tick
    \/ LoggedNow /\ (now + 1) \div TicksPerDay # Today /\ NextDay(1)
    \/ Return

SpecFrequency == Init /\ [][NextFrequency]_vars

\* SpecSlice: samples of two labels are logged at one reading of the clock
\* each day, on days eight days apart, and the adaptive tip is asked for.
SliceLabels == {"happy", "sad"}

NextSlice ==
    \/ \E e \in SliceLabels :
          Len(emotions) < MaxSliceSamples /\ LogEmotion(e, "none", "none")
    \/ GetAdaptiveTip("happy", "none", "none", "none")
    \/ Today + RecentDays + 1 <= MaxSliceDay /\ NextDay(RecentDays + 1)
    \/ Return

SpecSlice == Init /\ [][NextSlice]_vars

\* SpecVoice: the voice handler, with or without a mixer, under calls of
\* speak_text, stop_speaking and speak_bilingual from the main thread, with
\* every interleaving of the steps of its threads.
InitVoice == InitJournal /\ InitVoiceHandler /\ InitSession

NextVoice ==
    \/ Len(workers) < MaxWorkers /\ SpeakText("en")
    \/ StopSpeaking
    \/ Len(speakers) < MaxSpeakers /\ SpeakBilingual
    \/ \E i \in 1..Len(workers) :
          \/ \E ok \in BOOLEAN : Generate(i, ok)
          \/ Load(i)
          \/ Play(i)
          \/ Wait(i)
          \/ Sleep(i)
          \/ Finally(i)
    \/ AudioEnds
    \/ \E j \in 1..Len(speakers) :
          \/ Len(workers) < MaxWorkers /\ SpeakEnglish(j)
          \/ WaitForEnglish(j)
          \/ Len(workers) < MaxWorkers /\ SpeakHindi(j)

SpecVoice == InitVoice /\ [][NextVoice]_vars

\* SpecCamera: frames are analysed as the seconds pass, and the checkbox of
\* the auto-speak is switched.
CameraLabels == {"happy", "neutral"}

CameraOutputs == {d \in DetectorOutputs : d[1] \in CameraLabels /\ d[2] \in {0, 100}}

NextCamera ==
    \/ \E detected \in CameraOutputs :
          /\ Len(emotions) < MaxTicks
          /\ RunCameraAnalysis(detected, "none", "none")
    \/ ToggleAutoVoice
    \/ time < MaxTime /\ Second
    \/ Return

SpecCamera == Init /\ [][NextCamera]_vars

\* SpecWeekly: samples are logged over more than a week and the weekly
\* comparison is asked for on any day of the week.
NextWeekly ==
    \/ \E e \in SliceLabels :
          Len(emotions) < MaxWeeklySamples /\ LogEmotion(e, "none", "none")
    \/ GetWeeklyComparison
    \/ \E k \in 1..MaxJump : Today + k <= MaxWeeklyDay /\ NextDay(k)
    \/ Return

SpecWeekly == Init /\ [][NextWeekly]_vars

\* SpecDetector: frames are analysed over the days and what the detector
\* answers is logged.
NextDetector ==
    \/ \E detected \in DetectorOutputs :
          /\ Len(emotions) < MaxDetections
          /\ RunCameraAnalysis(detected, "none", "none")
    \/ \E k \in 1..MaxJump : Today + k <= MaxDay /\ NextDay(k)
    \/ Return

SpecDetector == Init /\ [][NextDetector]_vars

\* ================================================================ claims
\* the streak rows of a polarity, and the one inserted last
RecordsOf(table, streak_type) == {r \in Rows(table) : r.streak_type = streak_type}

MostRecentRecord(table, streak_type) ==
    CHOOSE r \in RecordsOf(table, streak_type) :
        \A q \in RecordsOf(table, streak_type) : q.id <= r.id

\* a step in which log_emotion inserted the sample and updated the streaks
StreakUpdated == ret = NoCall /\ ret'.op = "log_emotion" /\ ret'.updated

\* C1: after any sequence of log_emotion calls every mood_streaks row has
\* current_count <= best_count.
C1_CurrentAtMostBest ==
    \A r \in Rows(mood_streaks) : r.current_count <= r.best_count

\* a streak was extended (its best grew with it) and, after a pause, a new
\* streak started below the best it carries
C1_Witness ==
    \E r, q \in Rows(mood_streaks) :
        /\ r.current_count >= 2 /\ r.best_count = r.current_count
        /\ q.current_count < q.best_count

\* C2: a sample whose date is more than StreakTolerance days after the end
\* date of the latest streak row of its polarity adds a row with count 1,
\* start = end = the sample's date and best = max(1, previous best), and
\* changes no row that was there.
C2_GapStartsNewStreak ==
    [][ (/\ StreakUpdated
         /\ RecordsOf(mood_streaks, StreakType(ret'.emotion)) # {}
         /\ ret'.date - MostRecentRecord(mood_streaks,
                            StreakType(ret'.emotion)).end_date > 2)
        => LET P    == StreakType(ret'.emotion)
               prev == MostRecentRecord(mood_streaks, P)
               n    == Len(mood_streaks)
           IN  /\ Len(mood_streaks') = n + 1
               /\ \A i \in 1..n : mood_streaks'[i] = mood_streaks[i]
               /\ mood_streaks'[n + 1].streak_type = P
               /\ mood_streaks'[n + 1].current_count = 1
               /\ mood_streaks'[n + 1].start_date = ret'.date
               /\ mood_streaks'[n + 1].end_date = ret'.date
               /\ mood_streaks'[n + 1].best_count = Max(1, prev.best_count)
      ]_vars

\* log_emotion has just started a second streak of a polarity whose earlier
\* streak had reached a best count of 2 or more, which the new row carries
C2_Witness ==
    /\ ret.op = "log_emotion" /\ ret.updated
    /\ \E r, q \in RecordsOf(mood_streaks, StreakType(ret.emotion)) :
          /\ r.id < q.id
          /\ r.best_count >= 2
          /\ q.start_date = ret.date /\ q.end_date = ret.date
          /\ q.start_date - r.end_date > 2
          /\ q.current_count = 1 /\ q.best_count = r.best_count

\* C3: a sample whose date is at most StreakTolerance days (0, 1 or exactly
\* 2) after the end date of the latest streak row of its polarity raises that
\* row's current count by 1, makes its best max(old best, new current), sets
\* its end date to the sample's date, keeps its start date, and adds no row.
C3_SmallGapExtendsStreak ==
    [][ (/\ StreakUpdated
         /\ RecordsOf(mood_streaks, StreakType(ret'.emotion)) # {}
         /\ ret'.date - MostRecentRecord(mood_streaks,
                            StreakType(ret'.emotion)).end_date <= 2)
        => LET P    == StreakType(ret'.emotion)
               prev == MostRecentRecord(mood_streaks, P)
               n    == Len(mood_streaks)
           IN  /\ Len(mood_streaks') = n
               /\ \A i \in 1..n : i # prev.id => mood_streaks'[i] = mood_streaks[i]
               /\ mood_streaks'[prev.id].streak_type = P
               /\ mood_streaks'[prev.id].current_count = prev.current_count + 1
               /\ mood_streaks'[prev.id].best_count =
                      Max(prev.best_count, prev.current_count + 1)
               /\ mood_streaks'[prev.id].end_date = ret'.date
               /\ mood_streaks'[prev.id].start_date = prev.start_date
      ]_vars

\* log_emotion has just extended a streak over a gap of exactly 2 days
C3_Witness ==
    /\ ret.op = "log_emotion" /\ ret.updated
    /\ \E r \in RecordsOf(mood_streaks, StreakType(ret.emotion)) :
          /\ r.end_date = ret.date
          /\ r.start_date = ret.date - 2
          /\ r.current_count = 2 /\ r.best_count = 2

\* C4: get_current_streaks returns, for each polarity that has a streak row,
\* the most recently created row of that polarity.
C4_ReturnsLatestStreak ==
    (ret.op = "get_current_streaks" /\ ~ret.raised) =>
        \A t \in Polarities :
            RecordsOf(mood_streaks, t) # {} =>
                /\ t \in DOMAIN ret.streak_data
                /\ LET r == MostRecentRecord(mood_streaks, t)
                   IN  ret.streak_data[t] = [current    |-> r.current_count,
                                             best       |-> r.best_count,
                                             start_date |-> r.start_date,
                                             end_date   |-> r.end_date]

\* the rows of a DataFrame or table that equal x
Count(seq, x) == Cardinality({i \in 1..Len(seq) : seq[i] = x})

\* C5: from an empty store, after N log_emotion calls that inserted their
\* sample, get_emotion_history over a window that holds all their dates
\* returns exactly those N samples, duplicates kept, newest timestamp first.
C5_HistoryRoundTrip ==
    (/\ ret.op = "get_emotion_history"
     /\ \A r \in Rows(emotions) :
            ret.today - ret.days <= r.date /\ r.date <= ret.today)
    => /\ Len(ret.df) = Len(emotions)
       /\ \A x \in Rows(Selected(emotions)) \cup Rows(ret.df) :
              Count(ret.df, x) = Count(Selected(emotions), x)
       /\ \A i, j \in 1..Len(ret.df) :
              i < j => ret.df[i].timestamp >= ret.df[j].timestamp

\* two samples logged on different days come back from a window that starts
\* on the day of the older one, the newer one first
C5_Witness ==
    /\ ret.op = "get_emotion_history"
    /\ Len(emotions) = 2
    /\ Len(ret.df) = 2
    /\ ret.df[1].timestamp > ret.df[2].timestamp
    /\ ret.df[2].date = ret.today - ret.days

\* C6: log_emotion returns normally whatever exception the sample insert or
\* the streak update hits.
C6_LogEmotionNeverRaises ==
    ret.op = "log_emotion" => ~ret.raised

\* the streak update failed after the sample was inserted, and log_emotion
\* returned
C6_Witness ==
    /\ ret.op = "log_emotion"
    /\ faults = 1
    /\ ret.inserted /\ ~ret.updated /\ ~ret.raised
    /\ Len(mood_streaks) < Len(emotions)

\* the stored samples of the last RecentDays days, and the days they fall on
RecentRows ==
    {r \in Rows(emotions) : Today - RecentDays <= r.date /\ r.date <= Today}

RecentDates == {r.date : r \in RecentRows}

ConcerningDay(d) ==
    \E r \in RecentRows : r.date = d /\ r.emotion \in {"sad", "angry", "tired"}

\* the newest days with samples that all have a sad, angry or tired sample
ConcerningRun ==
    Cardinality({d \in RecentDates :
                    \A x \in RecentDates : x >= d => ConcerningDay(x)})

\* samples on five consecutive days, all sad, newest first
FiveSadDays ==
    [i \in 1..5 |-> [timestamp |-> (6 - i) * TicksPerDay,
                     date      |-> 6 - i,
                     emotion   |-> "sad"]]

\* C7: with a non-empty recent window and a current emotion among sad, angry
\* and tired, the concern level is high when the consecutive-day count is
\* >= 3, moderate when it is 2 and none otherwise; for any other current
\* emotion it is none; five consecutive days of sad with current emotion sad
\* give count 5 and concern high.
C7_ConcernLevels ==
    /\ (ret.op = "get_adaptive_tip" /\ ret.path = "try" /\ RecentRows # {}) =>
          IF ret.emotion \in {"sad", "angry", "tired"}
          THEN /\ ret.patterns.consecutive_days = ConcerningRun
               /\ ConcerningRun >= 3 => ret.patterns.concern_level = "high"
               /\ ConcerningRun = 2 => ret.patterns.concern_level = "moderate"
               /\ ConcerningRun < 2 => ret.patterns.concern_level = "none"
          ELSE ret.patterns.concern_level = "none"
    /\ LET p == AnalyzeEmotionPatterns(FiveSadDays, FiveSadDays, "sad", "sad")
       IN  p.consecutive_days = 5 /\ p.concern_level = "high"

\* a tip was asked for tired after three days that each have a sad or tired
\* sample, and the concern is high
C7_Witness ==
    /\ ret.op = "get_adaptive_tip"
    /\ ret.emotion = "tired"
    /\ Cardinality(RecentDates) = 3
    /\ \E r \in RecentRows : r.emotion = "sad"
    /\ ret.patterns.consecutive_days = 3
    /\ ret.patterns.concern_level = "high"

\* the pools of the tiers
SeverestPool(e) ==
    IF e = "sad" THEN TipPool("sad", "severe") ELSE TipPool(e, "chronic")

IntermediatePool(e) ==
    IF e = "sad" THEN TipPool("sad", "persistent") ELSE TipPool(e, "frequent")

CelebratoryPool == TipPool("happy", "build_on")

\* the pool the default branch serves: the emotion's immediate or stable
\* pool, or the one-text list of the branch itself
DefaultPool(e) ==
    UNION {TipPool(e, t) : t \in Tiers(e) \cap {"immediate", "stable"}}
        \cup GenericTips

\* C8: the tip is chosen in the order concern high (severest tier of the
\* emotion), concern moderate (intermediate tier), positive streak (happy
\* build_on), else the default tier, and the text is a member of the pool of
\* the tier chosen.
C8_TipPriority ==
    (ret.op = "get_adaptive_tip" /\ ret.path = "try") =>
        LET e == ret.emotion
            p == ret.patterns
        IN  /\ p.concern_level = "high" =>
                  e \in {"sad", "angry", "tired"} /\ ret.text \in SeverestPool(e)
            /\ p.concern_level = "moderate" =>
                  e \in {"sad", "angry", "tired"} /\ ret.text \in IntermediatePool(e)
            /\ (p.concern_level = "none" /\ p.pattern_type = "positive_streak") =>
                  ret.text \in CelebratoryPool
            /\ (p.concern_level = "none" /\ p.pattern_type # "positive_streak") =>
                  ret.text \in DefaultPool(e)

\* a tip for angry at moderate concern comes from angry's frequent pool
C8_Witness ==
    /\ ret.op = "get_adaptive_tip"
    /\ ret.emotion = "angry"
    /\ ret.patterns.concern_level = "moderate"
    /\ ret.text \in TipPool("angry", "frequent")

\* C9: every result of get_adaptive_tip, on the failure path too, has a
\* category among urgent, attention, celebrate and normal.
C9_CategoryInRange ==
    ret.op = "get_adaptive_tip" =>
        ret.category \in {"urgent", "attention", "celebrate", "normal"}

\* C10: with no concern and no positive streak, the tip for each of the six
\* emotions comes from a pool of that emotion in emotion_tips, not from an
\* emotion-independent fallback.
C10_DefaultTipIsOwn ==
    (/\ ret.op = "get_adaptive_tip" /\ ret.path = "try"
     /\ ret.patterns.concern_level = "none"
     /\ ret.patterns.pattern_type # "positive_streak")
    => /\ ret.text.emotion = ret.emotion
       /\ ret.text.tier \in Tiers(ret.emotion)

\* the newest days with samples that all have a happy sample
HappyDay(d) == \E r \in RecentRows : r.date = d /\ r.emotion = "happy"

HappyRun ==
    Cardinality({d \in RecentDates : \A x \in RecentDates : x >= d => HappyDay(x)})

LongerRows ==
    {r \in Rows(emotions) : Today - LongerDays <= r.date /\ r.date <= Today}

OlderRows == LongerRows \ RecentRows

Positives(rows) == Cardinality({r \in rows : r.emotion \in {"happy", "surprised"}})

Negatives(rows) == Cardinality({r \in rows : r.emotion \in {"sad", "angry", "tired"}})

\* samples of one day, newest first
DayOf(labels, day) ==
    [i \in 1..Len(labels) |-> [timestamp |-> day * TicksPerDay,
                               date      |-> day,
                               emotion   |-> labels[i]]]

\* C12: the trend is improving exactly when the recent window has more
\* positive (happy, surprised) and fewer negative (sad, angry, tired) samples
\* than the older period, declining exactly when it has fewer positive and
\* more negative ones, and stable otherwise, also on a shift of one of the
\* two counts only and on an empty older period; recent 3 positive and 0
\* negative against older 1 positive and 2 negative is improving.
C12_Trend ==
    /\ (ret.op = "get_adaptive_tip" /\ ret.path = "try") =>
          ret.patterns.trend =
              IF /\ Positives(RecentRows) > Positives(OlderRows)
                 /\ Negatives(RecentRows) < Negatives(OlderRows)
              THEN "improving"
              ELSE IF /\ Positives(RecentRows) < Positives(OlderRows)
                      /\ Negatives(RecentRows) > Negatives(OlderRows)
                   THEN "declining"
                   ELSE "stable"
    /\ LET recent == DayOf(<<"happy", "surprised", "happy">>, 9)
           older  == DayOf(<<"sad", "happy", "tired">>, 1)
       IN  Trend(recent, recent \o older) = "improving"

\* a tip was asked for after a negative sample of nine or more days ago and a
\* positive sample of this week, and the trend is improving
C12_Witness ==
    /\ ret.op = "get_adaptive_tip"
    /\ Positives(RecentRows) = 1 /\ Negatives(RecentRows) = 0
    /\ Positives(OlderRows) = 0 /\ Negatives(OlderRows) = 1
    /\ ret.patterns.trend = "improving"

\* C13: with an empty recent window, whatever the current emotion and the
\* samples of the longer window, the analysis ends without an error and gives
\* dominant emotion neutral, concern level none, trend stable and 0
\* consecutive days.
C13_EmptyWindowDefaults ==
    (ret.op = "get_adaptive_tip" /\ RecentRows = {}) =>
        /\ ret.path = "try" /\ ~ret.raised
        /\ ret.patterns.dominant_emotion = "neutral"
        /\ ret.patterns.concern_level = "none"
        /\ ret.patterns.trend = "stable"
        /\ ret.patterns.consecutive_days = 0

\* a tip was asked for sad when the only samples, sad ones, are more than a
\* week old
C13_Witness ==
    /\ ret.op = "get_adaptive_tip"
    /\ ret.emotion = "sad"
    /\ RecentRows = {}
    /\ \E r \in OlderRows : r.emotion = "sad"
    /\ ret.patterns = DefaultPatterns("sad")

\* the texts get_adaptive_tip can return, none of them empty
TipTexts ==
    UNION {TipPool(e, t) : e \in Emotions, t \in UNION {Tiers(x) : x \in Emotions}}
        \cup GenericTips \cup BasicTips

\* C14: get_adaptive_tip returns a text and a category whatever exception
\* the reads of the store or the analysis hit: a failed read of the recent
\* window is an empty result, analysed into the neutral snapshot and served a
\* tip of the default tier with category normal; a failed analysis is served
\* a fallback tip, the emotion's immediate pool or the one-text list.
C14_AdaptiveTipNeverRaises ==
    ret.op = "get_adaptive_tip" =>
        /\ ~ret.raised
        /\ ret.text \in TipTexts
        /\ ret.category \in {"urgent", "attention", "celebrate", "normal", "basic"}
        /\ (ret.recent_failed /\ ret.path = "try") =>
               /\ ret.patterns = DefaultPatterns(ret.emotion)
               /\ ret.text \in DefaultPool(ret.emotion)
               /\ ret.category = "normal"
        /\ ret.path = "except" =>
               ret.text \in TipPool(ret.emotion, "immediate") \cup BasicTips

\* both reads of a store that holds samples failed, and the tip for sad is
\* the one of an empty history
C14_Witness ==
    /\ ret.op = "get_adaptive_tip"
    /\ ret.emotion = "sad"
    /\ ret.recent_failed /\ ret.longer_failed
    /\ RecentRows # {}
    /\ ret.path = "try" /\ ~ret.raised
    /\ ret.patterns = DefaultPatterns("sad")
    /\ ret.text \in TipPool("sad", "immediate")

\* the stored samples whose date is among the last "days" days or "today"
\* itself, as the query selects them
WindowRows(today, days) ==
    {r \in Rows(emotions) : today - days <= r.date /\ r.date <= today}

\* C15: get_emotion_history(days) returns the stored samples whose date d
\* has today - days <= d <= today, each as often as it is stored, and no
\* other row, by descending timestamp.
C15_HistoryWindow ==
    (ret.op = "get_emotion_history" /\ ~ret.raised) =>
        LET rows == WindowRows(ret.today, ret.days)
        IN  /\ Len(ret.df) = Cardinality(rows)
            /\ \A i \in 1..Len(ret.df) :
                   /\ ret.today - ret.days <= ret.df[i].date
                   /\ ret.df[i].date <= ret.today
                   /\ Count(ret.df, ret.df[i]) =
                          Cardinality({r \in rows :
                              /\ r.timestamp = ret.df[i].timestamp
                              /\ r.date = ret.df[i].date
                              /\ r.emotion = ret.df[i].emotion})
            /\ \A i, j \in 1..Len(ret.df) :
                   i < j => ret.df[i].timestamp >= ret.df[j].timestamp

\* of a sample of yesterday and a sample of today, the window of 0 days
\* returns the one of today only
C15_Witness ==
    /\ ret.op = "get_emotion_history"
    /\ ret.days = 0
    /\ Len(emotions) = 2
    /\ emotions[1].date = ret.today - 1
    /\ Len(ret.df) = 1
    /\ ret.df[1].date = ret.today

\* the streak rows of a polarity that get_current_streaks takes for current
ActiveStreaks(streak_type) ==
    {r \in RecordsOf(mood_streaks, streak_type) : r.current_count > 0}

\* C16: after any sequence of log_emotion calls each polarity has at most one
\* mood_streaks row with current_count > 0.
C16_OneActiveStreak ==
    \A t \in Polarities : Cardinality(ActiveStreaks(t)) <= 1

\* the polarity of a label
Polarity(e) ==
    CASE e \in {"happy", "surprised"} -> "positive"
      [] e \in {"sad", "angry"}       -> "negative"
      [] OTHER                        -> "neutral"

\* C17: happy and surprised are positive, sad and angry negative, every other
\* label (neutral, tired, a label the detector does not know) neutral; a
\* logged sample adds or changes exactly one streak row, of its own polarity,
\* and leaves every row of the other two polarities as it was.
C17_OwnPolarityOnly ==
    [][ StreakUpdated =>
          LET P == Polarity(ret'.emotion)
              n == Len(mood_streaks)
              changed == {i \in 1..Len(mood_streaks') :
                             i > n \/ mood_streaks'[i] # mood_streaks[i]}
          IN  /\ Len(mood_streaks') >= n
              /\ Cardinality(changed) = 1
              /\ \A i \in changed : mood_streaks'[i].streak_type = P
              /\ \A i \in 1..n :
                     mood_streaks[i].streak_type # P =>
                         mood_streaks'[i] = mood_streaks[i]
      ]_vars

\* after a happy and a tired sample, a sample of a label the detector does
\* not know has extended the neutral streak that tired started, next to the
\* positive streak
C17_Witness ==
    /\ ret.op = "log_emotion" /\ ret.updated
    /\ ret.emotion = "fearful"
    /\ \E i \in 1..Len(emotions) : emotions[i].emotion = "tired"
    /\ \E r \in RecordsOf(mood_streaks, "positive") : r.current_count = 1
    /\ \E r \in RecordsOf(mood_streaks, "neutral") : r.current_count = 2
    /\ RecordsOf(mood_streaks, "negative") = {}

\* the samples of the recent window, and those of them with the emotion the
\* tip was asked for
TotalRecent == Cardinality(RecentRows)

CurrentEmotionCount == Cardinality({r \in RecentRows : r.emotion = ret.emotion})

\* C18: with c of the n > 0 samples of the recent window having the current
\* emotion, the frequency is high exactly when c/n > 0.6 (5c > 3n), moderate
\* exactly when 0.3 < c/n <= 0.6, and low exactly when c/n <= 0.3
\* (10c <= 3n): a ratio of exactly 0.6 is moderate, one of exactly 0.3 low.
C18_FrequencyBuckets ==
    (ret.op = "get_adaptive_tip" /\ ret.path = "try" /\ TotalRecent > 0) =>
        LET c == CurrentEmotionCount
            n == TotalRecent
        IN  /\ ret.patterns.frequency \in {"high", "moderate", "low"}
            /\ ret.patterns.frequency = "high" <=> 5 * c > 3 * n
            /\ ret.patterns.frequency = "moderate" <=>
                   (10 * c > 3 * n /\ 5 * c <= 3 * n)
            /\ ret.patterns.frequency = "low" <=> 10 * c <= 3 * n

\* three of ten samples have the current emotion: the ratio is 0.3, low
C18_Witness ==
    /\ ret.op = "get_adaptive_tip"
    /\ TotalRecent = 10
    /\ CurrentEmotionCount = 3
    /\ ret.patterns.frequency = "low"

\* the sum of value_counts() over the labels it lists
RECURSIVE SumOfCounts(_, _)
SumOfCounts(df, labels) ==
    IF labels = {} THEN 0
    ELSE LET e == CHOOSE x \in labels : TRUE
         IN  ValueCount(df, e) + SumOfCounts(df, labels \ {e})

\* C19: for a non-empty recent window the counts of value_counts(), summed
\* over the emotions of the window, equal the number of samples of the
\* window, so that the frequency ratios sum to 1.
C19_CountsPartition ==
    (ret.op = "get_adaptive_tip" /\ ret.path = "try" /\ TotalRecent > 0) =>
        \A recent_df \in EmotionHistory(emotions, Today, RecentDays, "none") :
            /\ Len(recent_df) = TotalRecent
            /\ SumOfCounts(recent_df,
                   {recent_df[i].emotion : i \in 1..Len(recent_df)}) = Len(recent_df)

\* a tip was asked for over a window with two samples of one emotion on one
\* day and a sample of another emotion
C19_Witness ==
    /\ ret.op = "get_adaptive_tip" /\ ret.path = "try"
    /\ TotalRecent = 3
    /\ \E r, q, x \in RecentRows :
          /\ r.id # q.id /\ r.date = q.date /\ r.emotion = q.emotion
          /\ x.emotion # r.emotion

\* the operations that read the store
ReadOperations ==
    {"get_emotion_history", "get_current_streaks", "get_mood_insights",
     "get_adaptive_tip"}

SampleOf(r) ==
    [timestamp  |-> r.timestamp,
     date       |-> r.date,
     emotion    |-> r.emotion,
     confidence |-> r.confidence]

Occurrences(df, x) == Cardinality({i \in 1..Len(df) : df[i] = x})

\* C22: whenever the trend analysis slices, for every order in which the two
\* queries can deliver their rows, the rows of the 14-day result after the
\* first len(recent) are exactly the stored samples of the 14-day window
\* that are not in the 7-day window, each as often as it is stored, also
\* when samples share a timestamp.
C22_OlderPeriodIsOlderRows ==
    (ret.op = "get_adaptive_tip" /\ ret.path = "try") =>
        \A recent_df \in EmotionHistory(emotions, Today, RecentDays, "none"),
           longer_df \in EmotionHistory(emotions, Today, LongerDays, "none") :
            Len(longer_df) > Len(recent_df) =>
                LET older_period == OlderPeriod(recent_df, longer_df)
                IN  /\ Len(older_period) = Cardinality(OlderRows)
                    /\ \A r \in Rows(emotions) :
                          Occurrences(older_period, SampleOf(r)) =
                              Cardinality({q \in OlderRows : SampleOf(q) = SampleOf(r)})

\* a tip was asked for with two samples of one timestamp in the older
\* period, of different labels, and two samples of one timestamp in the
\* recent window
C22_Witness ==
    /\ ret.op = "get_adaptive_tip" /\ ret.path = "try"
    /\ \E q1, q2 \in OlderRows :
          q1.timestamp = q2.timestamp /\ q1.emotion # q2.emotion
    /\ \E r1, r2 \in RecentRows :
          r1.timestamp = r2.timestamp /\ r1.emotion # r2.emotion

\* the calendar days up to the newest day with samples, going backwards,
\* that each have a sad, angry or tired sample
CalendarRun ==
    LET newest == CHOOSE d \in RecentDates : \A x \in RecentDates : x <= d
    IN  Cardinality({d \in (Today - RecentDays)..newest :
                        \A x \in d..newest : ConcerningDay(x)})

\* C23: the consecutive-day count is the number of consecutive calendar
\* days, from the newest day with samples backwards, that each have a sample
\* of the emotion set; a calendar day without such a sample ends the run,
\* also a day without any sample.
C23_CalendarDays ==
    (/\ ret.op = "get_adaptive_tip" /\ ret.path = "try"
     /\ RecentRows # {}
     /\ ret.emotion \in {"sad", "angry", "tired"}) =>
        ret.patterns.consecutive_days = CalendarRun

\* the days from start_date to end_date with a stored sample of the polarity
DaysOfPolarity(streak_type, start_date, end_date) ==
    {r.date : r \in {x \in Rows(emotions) :
                        /\ StreakType(x.emotion) = streak_type
                        /\ start_date <= x.date /\ x.date <= end_date}}

\* C24: the current length get_current_streaks reports for a polarity is the
\* number of distinct days, from the start to the end of that streak, with a
\* logged sample of the polarity, also when a day has several samples.
C24_CurrentCountsDays ==
    ret.op = "get_current_streaks" =>
        \A t \in DOMAIN ret.streak_data :
            LET streak == ret.streak_data[t]
            IN  streak.current =
                    Cardinality(DaysOfPolarity(t, streak.start_date, streak.end_date))

\* C25: category and text of an adaptive tip name the same tier: urgent
\* with a text of a severe or chronic pool, attention with one of a
\* persistent or frequent pool, celebrate with one of the build_on pool of
\* happy, normal with one of the default tier; and the concern level is
\* moderate or high only for a current emotion sad, angry or tired.
C25_CategoryMatchesText ==
    (ret.op = "get_adaptive_tip" /\ ret.path = "try") =>
        /\ ret.category = "urgent" <=>
               \E e \in {"sad", "angry", "tired"} : ret.text \in SeverestPool(e)
        /\ ret.category = "attention" <=>
               \E e \in {"sad", "angry", "tired"} : ret.text \in IntermediatePool(e)
        /\ ret.category = "celebrate" <=> ret.text \in CelebratoryPool
        /\ ret.category = "normal" <=> ret.text \in DefaultPool(ret.emotion)
        /\ ret.patterns.concern_level \in {"moderate", "high"} =>
               ret.emotion \in {"sad", "angry", "tired"}

\* a tip was asked for neutral after three days that each have a sad, angry
\* or tired sample: the category is normal and the text one of the stable
\* pool of neutral
C25_Witness ==
    /\ ret.op = "get_adaptive_tip" /\ ret.path = "try"
    /\ ret.emotion = "neutral"
    /\ ConcerningRun = 3
    /\ ret.category = "normal"
    /\ ret.text \in TipPool("neutral", "stable")

\* thread i calls pygame.mixer.music.play()
BeginsPlayback(i) == workers[i].pc = "play" /\ workers'[i].pc = "wait"

\* C26: a worker thread that was started before a stop_speaking that has
\* returned never begins audio playback.
C26_NoPlaybackAfterStop ==
    [][\A i \in 1..Len(workers) : BeginsPlayback(i) => ~workers[i].stopped]_vars

\* thread j of speak_bilingual calls speak_text for the Hindi message
RequestsHindi(j) == speakers[j].pc = "hindi" /\ speakers'[j].pc = "done"

\* C27: speak_bilingual requests the Hindi message only after the worker
\* thread of the English message has run to its end.
C27_HindiAfterEnglish ==
    [][\A j \in 1..Len(speakers) :
          RequestsHindi(j) => workers[speakers[j].english].pc = "done"]_vars

\* the threads in the section from music.play() to the end of the wait loop
Playing == {i \in 1..Len(workers) : workers[i].pc = "wait"}

\* C28: while the worker of the newest speak_text generates or plays its
\* audio and no stop_speaking has been called since, is_speaking is True, and
\* at most one worker is in its play-and-wait section.
C28_FlagOfNewestRequest ==
    /\ \A i \in 1..Len(workers) :
          (/\ i = Len(workers)
           /\ ~workers[i].stopped
           /\ workers[i].pc \in {"generate", "load", "play", "wait", "sleep"}) =>
              is_speaking
    /\ Cardinality(Playing) <= 1

\* a frame is analysed in this step
CameraTick == ret.op = "none" /\ ret'.op = "run_camera_analysis"

\* the step starts a worker thread of the voice handler
Speaks == Len(workers') = Len(workers) + 1

\* C29: a camera tick speaks exactly when the auto-speak is enabled, the
\* emotion detected differs from the one spoken last and more than 3 seconds
\* have passed since; a tick that speaks records its emotion and time, so
\* that two auto-spoken emotions in a row differ and are more than 3 seconds
\* apart, and a tick that does not speak leaves both records as they are.
C29_AutoSpeakTrigger ==
    [][CameraTick =>
          /\ Speaks <=> (/\ auto_voice
                         /\ ret'.emotion # last_spoken_emotion
                         /\ time - last_emotion_time > 3)
          /\ Speaks => /\ last_spoken_emotion' = ret'.emotion
                       /\ last_emotion_time' = time
                       /\ last_spoken_emotion' # last_spoken_emotion
                       /\ last_emotion_time' - last_emotion_time > 3
          /\ ~Speaks => UNCHANGED <<last_spoken_emotion, last_emotion_time>>]_vars

\* three frames were analysed: the first was spoken, one was not, and the
\* last one, with another emotion and four seconds after the first, was
\* spoken again
C29_Witness ==
    /\ ret.op = "run_camera_analysis" /\ ret.spoke
    /\ Len(emotions) = 3 /\ Len(workers) = 2
    /\ emotions[1].emotion = "happy" /\ emotions[3].emotion = "neutral"
    /\ last_spoken_emotion = "neutral"
    /\ last_emotion_time = StartTime + Cooldown + 1

\* C30: no stored sample is counted both for this week and for last week by
\* get_weekly_comparison, in the totals and in the counts of its emotion.
C30_WeeksDisjoint ==
    ret.op = "get_weekly_comparison" =>
        /\ ret.this_week \cap ret.last_week = {}
        /\ ret.this_week_total + ret.last_week_total <= Len(emotions)
        /\ \A e \in DOMAIN ret.emotion_changes :
              ret.emotion_changes[e].this_week + ret.emotion_changes[e].last_week
                  <= Cardinality({r \in Rows(emotions) : r.emotion = e})

====
